---- MODULE Spec2Model ----
(***************************************************************************)
(* Model of the lobby relay server of src/index.ts: the in-memory `games`  *)
(* map, the websocket handlers open / message / pong / close and the       *)
(* setInterval liveness sweep.  Strings are sequences of one-character     *)
(* strings, so that split, join and encodeURI are computed, not assumed.   *)
(***************************************************************************)
EXTENDS Integers, Sequences, FiniteSets, TLC

VARIABLES games, data, subs, status, now, out, fault

vars == <<games, data, subs, status, now, out, fault>>

(***************************************************************************)
(* Bounds of the model.                                                    *)
(***************************************************************************)
NumConns == 6
LobbyConns == 2
MaxSweeps == 3

Conns == 1..NumConns

(***************************************************************************)
(* Program constants.                                                      *)
(***************************************************************************)
MAX_PLAYERS == 5
MAX_GAME_NAME_LENGTH == 32
MAX_USERNAME_LENGTH == 26
PING_INTERVAL == 1000 * 60 * 1

(***************************************************************************)
(* Strings.  undefined and null are one-element sequences whose element is *)
(* not a character, so they differ from every string.                      *)
(***************************************************************************)
Undefined == <<"<undefined>">>
Null == <<"<null>">>

IsNullish(x) == x = Undefined \/ x = Null

RECURSIVE Rep(_, _)
Rep(ch, n) == IF n = 0 THEN <<>> ELSE <<ch>> \o Rep(ch, n - 1)

\* `${x}` of a template literal
ToStr(x) ==
  IF x = Undefined THEN <<"u","n","d","e","f","i","n","e","d">>
  ELSE IF x = Null THEN <<"n","u","l","l">>
  ELSE x

\* the index of the first sep in s at or after i, or 0
RECURSIVE FindFrom(_, _, _)
FindFrom(s, sep, i) ==
  IF i > Len(s) THEN 0
  ELSE IF s[i] = sep THEN i
  ELSE FindFrom(s, sep, i + 1)

\* String.prototype.split(sep) for a one-character separator
RECURSIVE Split(_, _)
Split(s, sep) ==
  LET i == FindFrom(s, sep, 1) IN
  IF i = 0 THEN <<s>>
  ELSE <<SubSeq(s, 1, i - 1)>> \o Split(SubSeq(s, i + 1, Len(s)), sep)

\* const [x, y] = parts : a missing element is undefined
Elem(parts, i) == IF i <= Len(parts) THEN parts[i] ELSE Undefined

\* Array.prototype.join(',')
RECURSIVE Join(_)
Join(xs) ==
  IF Len(xs) = 0 THEN <<>>
  ELSE IF Len(xs) = 1 THEN ToStr(xs[1])
  ELSE ToStr(xs[1]) \o <<",">> \o Join(Tail(xs))

\* encodeURI: letters, digits and ; , / ? : @ & = + $ - _ . ! ~ * ' ( ) #
\* are kept; of the characters the model uses only the space is escaped
RECURSIVE EncodeURIStr(_)
EncodeURIStr(s) ==
  IF Len(s) = 0 THEN <<>>
  ELSE (IF s[1] = " " THEN <<"%", "2", "0">> ELSE <<s[1]>>) \o EncodeURIStr(Tail(s))

encodeURI(x) == EncodeURIStr(ToStr(x))

(***************************************************************************)
(* enum GameEvent                                                          *)
(***************************************************************************)
EvJoin == <<"G","A","M","E","J","O","I","N">>
EvJoinDeny == <<"G","A","M","E","J","O","I","N","_","D","E","N","Y">>
EvJoinAccept == <<"G","A","M","E","J","O","I","N","_","A","C","C","E","P","T">>
EvLeave == <<"G","A","M","E","L","E","A","V","E">>
EvGameAction == <<"G","A","M","E","A","C","T","I","O","N">>
EvGameActionDeny == <<"G","A","M","E","A","C","T","I","O","N","_","D","E","N","Y">>
EvGameEnd == <<"G","A","M","E","E","N","D">>
EvGameMessage == <<"G","A","M","E","M","S","G">>

GAME_NAME_INVALID == <<"G","A","M","E","_","N","A","M","E","_","I","N","V","A","L","I","D">>
USERNAME_INVALID == <<"U","S","E","R","N","A","M","E","_","I","N","V","A","L","I","D">>
USERNAME_TAKEN == <<"U","S","E","R","N","A","M","E","_","T","A","K","E","N">>
GAME_FULL == <<"G","A","M","E","_","F","U","L","L">>
GAME_NOT_STARTED == <<"G","A","M","E","_","N","O","T","_","S","T","A","R","T","E","D">>
PLAYER_LEFT == <<"P","L","A","Y","E","R","_","L","E","F","T">>
PLAYER_TIMEOUT == <<"P","L","A","Y","E","R","_","T","I","M","E","O","U","T">>
EMPTY == <<"E","M","P","T","Y">>

\* the control frame of ws.ping(), which is no text message
PingFrame == <<"<ping>">>

\* a mutant of isGameNameValid: < in place of <=
isGameNameValid_strict(gameName) ==
  ~IsNullish(gameName) /\ Len(gameName) < MAX_GAME_NAME_LENGTH

isGameNameValid(gameName) ==
  ~IsNullish(gameName) /\ Len(gameName) <= MAX_GAME_NAME_LENGTH

isUsernameValid(username) ==
  ~IsNullish(username) /\ Len(username) <= MAX_USERNAME_LENGTH

encodeMessage(event, d) == event \o <<".">> \o ToStr(d)

(***************************************************************************)
(* The games map: a sequence of entries in insertion order (Map.forEach    *)
(* visits in that order).  An entry is [name, players, hasStarted];        *)
(* players is a sequence of [username, ws].                                *)
(***************************************************************************)
RECURSIVE KeyIndex(_, _, _)
KeyIndex(G, name, i) ==
  IF i > Len(G) THEN 0
  ELSE IF G[i].name = name THEN i
  ELSE KeyIndex(G, name, i + 1)

\* games.has(name) / the position of games.get(name), 0 when undefined
GameIdx(G, name) == KeyIndex(G, name, 1)

HasGame(G, name) == GameIdx(G, name) # 0

\* games.delete(name)
GamesDelete(G, name) ==
  LET i == GameIdx(G, name) IN
  IF i = 0 THEN G ELSE SubSeq(G, 1, i - 1) \o SubSeq(G, i + 1, Len(G))

Usernames(players) == [i \in 1..Len(players) |-> players[i].username]

encodePlayerList(hasGame, players) ==
  IF hasGame THEN Join(Usernames(players)) ELSE EMPTY

isPlayerInGame(players, username) ==
  \E i \in 1..Len(players) : players[i].username = username

RECURSIVE FilterOut(_, _)
FilterOut(players, username) ==
  IF Len(players) = 0 THEN <<>>
  ELSE (IF players[1].username # username THEN <<players[1]>> ELSE <<>>)
       \o FilterOut(Tail(players), username)

(***************************************************************************)
(* The world a handler runs in: W = [games, data, subs, status, out].      *)
(***************************************************************************)
\* the connections a frame published on topic reaches
Subscribers(W, topic) ==
  {c \in Conns : W.status[c] = "open" /\ topic \in W.subs[c]}

Deliver(W, rcpts, msg) ==
  [W EXCEPT !.out = [c \in Conns |->
      IF c \in rcpts THEN Append(W.out[c], msg) ELSE W.out[c]]]

\* ws.send(msg)
Send(W, ws, msg) ==
  Deliver(W, IF W.status[ws] = "open" THEN {ws} ELSE {}, msg)

\* server.publish(topic, msg): every subscriber
ServerPublish(W, topic, msg) == Deliver(W, Subscribers(W, topic), msg)

\* ws.publish(topic, msg): every subscriber but ws (no publishToSelf)
WsPublish(W, ws, topic, msg) == Deliver(W, Subscribers(W, topic) \ {ws}, msg)

\* a mutant of validatePlayerData: the username is not looked up in the game
validatePlayerData_noTaken(W, ws, gi) ==
  IF ~isGameNameValid(W.data[ws].gameName) THEN GAME_NAME_INVALID
  ELSE IF ~isUsernameValid(W.data[ws].username) THEN USERNAME_INVALID
  ELSE <<>>

\* the reply of validatePlayerData, or <<>> when it returns true
validatePlayerData(W, ws, gi) ==
  IF ~isGameNameValid(W.data[ws].gameName) THEN GAME_NAME_INVALID
  ELSE IF ~isUsernameValid(W.data[ws].username) THEN USERNAME_INVALID
  ELSE IF gi # 0 /\ isPlayerInGame(W.games[gi].players, W.data[ws].username)
    THEN USERNAME_TAKEN
  ELSE <<>>

\* a mutant of validateGameAvailability: > in place of >=
validateGameAvailability_gt(W, ws, gi) ==
  IF gi # 0 /\ Len(W.games[gi].players) > MAX_PLAYERS THEN GAME_FULL ELSE <<>>

\* the reply of validateGameAvailability, or <<>> when it returns true
validateGameAvailability(W, ws, gi) ==
  IF gi # 0 /\ Len(W.games[gi].players) >= MAX_PLAYERS THEN GAME_FULL ELSE <<>>

addAndSubscribePlayerToGame(W, gi, ws) ==
  LET name == W.data[ws].gameName
      entry == [username |-> W.data[ws].username, ws |-> ws]
      G1 == IF gi = 0
            THEN Append(W.games, [name |-> name, players |-> <<entry>>,
                                  hasStarted |-> FALSE])
            ELSE [W.games EXCEPT ![gi].players = Append(@, entry)]
      W1 == [W EXCEPT !.games = G1, !.subs[ws] = @ \cup {name}]
      i1 == GameIdx(G1, name)
      playerList == encodePlayerList(i1 # 0, IF i1 # 0 THEN G1[i1].players ELSE <<>>)
  IN ServerPublish(W1, name, encodeMessage(EvJoinAccept, playerList))

\* a mutant of TryJoin: the capacity is checked before the player data
TryJoin_capacityFirst(W, ws) ==
  LET gi == GameIdx(W.games, W.data[ws].gameName)
      r1 == validatePlayerData(W, ws, gi)
      r2 == validateGameAvailability(W, ws, gi)
  IN IF r2 # <<>> THEN Send(W, ws, encodeMessage(EvJoinDeny, r2))
     ELSE IF r1 # <<>> THEN Send(W, ws, encodeMessage(EvJoinDeny, r1))
     ELSE addAndSubscribePlayerToGame(W, gi, ws)

\* validatePlayerData(..) && validateGameAvailability(..), then the join
TryJoin(W, ws) ==
  LET gi == GameIdx(W.games, W.data[ws].gameName)
      r1 == validatePlayerData(W, ws, gi)
      r2 == validateGameAvailability(W, ws, gi)
  IN IF r1 # <<>> THEN Send(W, ws, encodeMessage(EvJoinDeny, r1))
     ELSE IF r2 # <<>> THEN Send(W, ws, encodeMessage(EvJoinDeny, r2))
     ELSE addAndSubscribePlayerToGame(W, gi, ws)

\* removePlayerFromGame(game, ws, reason) on the game object obj, which is
\* the entry of key obj.name while that key is in the map and a detached
\* object afterwards.  Yields the world and the object after the call.
removePlayerFromGame(W, obj, ws, reason) ==
  LET topic == W.data[ws].gameName
      obj1 == [obj EXCEPT !.players = FilterOut(@, W.data[ws].username)]
      k == GameIdx(W.games, obj.name)
      W1 == IF k = 0 THEN W ELSE [W EXCEPT !.games[k] = obj1]
      W2 == WsPublish(W1, ws, topic,
                      encodeMessage(EvLeave, encodePlayerList(TRUE, obj1.players)))
      W3 == IF obj1.hasStarted
            THEN [WsPublish(W2, ws, topic, encodeMessage(EvGameEnd, reason))
                    EXCEPT !.games = GamesDelete(W2.games, topic)]
            ELSE W2
  IN [W |-> W3, obj |-> obj1]


(***************************************************************************)
(* websocket.close(ws): the handler body.  Yields the world and the        *)
(* currentGame object as the handler leaves it.                            *)
(***************************************************************************)
closeHandler(W, ws) ==
  LET name == W.data[ws].gameName
      gi == GameIdx(W.games, name)
  IN IF gi = 0 THEN [W |-> W, hit |-> FALSE, obj |-> <<>>]
     ELSE
       LET cur == W.games[gi]
           r == IF isPlayerInGame(cur.players, W.data[ws].username)
                THEN removePlayerFromGame(W, cur, ws, PLAYER_LEFT)
                ELSE [W |-> W, obj |-> cur]
           W1 == IF Len(r.obj.players) = 0
                 THEN [r.W EXCEPT !.games = GamesDelete(r.W.games, name)]
                 ELSE r.W
           W2 == [W1 EXCEPT !.subs[ws] = @ \ {name}]
       IN [W |-> W2, hit |-> TRUE, obj |-> r.obj]

\* the transport closes the link: the socket stops receiving and leaves
\* every topic, then the close handler runs
CloseLink(W, ws) ==
  closeHandler([W EXCEPT !.status[ws] = "closed", !.subs[ws] = {}], ws)

(***************************************************************************)
(* websocket.message(ws, message)                                          *)
(***************************************************************************)
JoinBranch(W, ws, dat, t) ==
  LET jp == Split(dat, ",")
      W1 == [W EXCEPT !.data[ws] = [gameName |-> Elem(jp, 1),
                                    username |-> Elem(jp, 2),
                                    lastPong |-> t]]
  IN TryJoin(W1, ws)

LeaveBranch(W, ws) ==
  LET gi == GameIdx(W.games, W.data[ws].gameName) IN
  IF gi # 0 /\ isPlayerInGame(W.games[gi].players, W.data[ws].username)
  THEN removePlayerFromGame(W, W.games[gi], ws, PLAYER_LEFT).W
  ELSE W

\* whether the GAMEACTION branch sets hasStarted
StartsGame(game, username) ==
  /\ ~game.hasStarted
  /\ Len(game.players) >= 2
  /\ username = game.players[1].username

GameActionBranch(W, ws, dat) ==
  LET gi == GameIdx(W.games, W.data[ws].gameName) IN
  IF gi # 0 /\ isPlayerInGame(W.games[gi].players, W.data[ws].username)
  THEN LET W1 == IF StartsGame(W.games[gi], W.data[ws].username)
                 THEN [W EXCEPT !.games[gi].hasStarted = TRUE]
                 ELSE W
       IN IF ~W1.games[gi].hasStarted
          THEN Send(W1, ws, encodeMessage(EvGameActionDeny, GAME_NOT_STARTED))
          ELSE WsPublish(W1, ws, W1.data[ws].gameName,
                         encodeMessage(EvGameAction, dat))
  ELSE W

GameMessageBranch(W, ws, dat) ==
  LET gi == GameIdx(W.games, W.data[ws].gameName) IN
  IF gi # 0 /\ isPlayerInGame(W.games[gi].players, W.data[ws].username)
  THEN ServerPublish(W, W.data[ws].gameName,
                     encodeMessage(EvGameMessage, encodeURI(dat)))
  ELSE W

\* data.split(',') on an undefined data throws a TypeError
MessageThrows(frame) ==
  LET parts == Split(frame, ".") IN
  Elem(parts, 1) = EvJoin /\ Elem(parts, 2) = Undefined

messageHandler(W, ws, frame, t) ==
  LET parts == Split(frame, ".")
      event == Elem(parts, 1)
      dat == Elem(parts, 2)
  IN IF event = EvJoin
       THEN (IF dat = Undefined THEN W ELSE JoinBranch(W, ws, dat, t))
     ELSE IF event = EvLeave THEN LeaveBranch(W, ws)
     ELSE IF event = EvGameAction THEN GameActionBranch(W, ws, dat)
     ELSE IF event = EvGameMessage THEN GameMessageBranch(W, ws, dat)
     ELSE W

(***************************************************************************)
(* websocket.open(ws)                                                      *)
(***************************************************************************)
openHandler(W, ws, t) ==
  LET W1 == TryJoin(W, ws) IN [W1 EXCEPT !.data[ws].lastPong = t]

(***************************************************************************)
(* websocket.pong(ws)                                                      *)
(***************************************************************************)
pongHandler(W, ws, t) ==
  LET gi == GameIdx(W.games, W.data[ws].gameName) IN
  IF gi # 0 /\ \E i \in 1..Len(W.games[gi].players) : W.games[gi].players[i].ws = ws
  THEN [W EXCEPT !.data[ws].lastPong = t]
  ELSE W

(***************************************************************************)
(* The setInterval callback.                                               *)
(***************************************************************************)
\* lastPing - lastPong > PING_INTERVAL
TimedOut(t, lastPong) == (t - PING_INTERVAL) - lastPong > PING_INTERVAL

\* player.ws.close(1000, 'PING_TIMEOUT'): nothing on a link already closed;
\* else the transport runs the close handler before close() returns (sync)
\* or on a later turn of the event loop
WsClose(W, obj, ws, sync) ==
  IF W.status[ws] # "open" THEN [W |-> W, obj |-> obj]
  ELSE IF ~sync THEN [W |-> [W EXCEPT !.status[ws] = "closing"], obj |-> obj]
  ELSE LET r == CloseLink(W, ws) IN
       [W |-> r.W,
        obj |-> IF r.hit /\ r.obj.name = obj.name
                   /\ HasGame(W.games, obj.name) THEN r.obj ELSE obj]

\* one call of the inner forEach callback, on the game object obj
SweepPlayer(W, obj, player, t, sync) ==
  IF TimedOut(t, W.data[player.ws].lastPong)
  THEN LET r == removePlayerFromGame(W, obj, player.ws, PLAYER_TIMEOUT)
       IN WsClose(r.W, r.obj, player.ws, sync)
  ELSE [W |-> Send(W, player.ws, PingFrame), obj |-> obj]

\* game.players.forEach over the array it was called on
RECURSIVE SweepPlayers(_, _, _, _, _, _)
SweepPlayers(W, obj, arr, i, t, sync) ==
  IF i > Len(arr) THEN W
  ELSE LET r == SweepPlayer(W, obj, arr[i], t, sync)
       IN SweepPlayers(r.W, r.obj, arr, i + 1, t, sync)

\* games.forEach: the keys in insertion order, a deleted key is not visited
RECURSIVE SweepGames(_, _, _, _, _)
SweepGames(W, keys, i, t, sync) ==
  IF i > Len(keys) THEN W
  ELSE LET gi == GameIdx(W.games, keys[i]) IN
       IF gi = 0 THEN SweepGames(W, keys, i + 1, t, sync)
       ELSE SweepGames(SweepPlayers(W, W.games[gi], W.games[gi].players, 1, t, sync),
                       keys, i + 1, t, sync)

sweepHandler(W, t, sync) ==
  SweepGames(W, [i \in 1..Len(W.games) |-> W.games[i].name], 1, t, sync)

(***************************************************************************)
(* The inputs of the clients.                                              *)
(***************************************************************************)
NameG == <<"g">>
NameH == <<"h">>
UserA == <<"a">>
UserB == <<"b">>
PayloadFoo == <<"f","o","o">>

JoinFrame(g, u) == EvJoin \o <<".">> \o g \o <<",">> \o u
ActionFrame(p) == EvGameAction \o <<".">> \o p
MsgFrame(p) == EvGameMessage \o <<".">> \o p

JoinFrames(GN, UN) == {JoinFrame(g, u) : g \in GN, u \in UN}

\* the frames of a well-behaved client
PlainFrames == {EvLeave, ActionFrame(PayloadFoo), MsgFrame(<<"h","i"," ","x">>)}

\* frames with a missing or over-long payload, or no known event
OddFrames ==
  {EvJoin, EvJoin \o <<".">> \o NameG, <<>>, <<"F","O","O",".","x">>,
   ActionFrame(<<"f",".","o">>), EvGameAction}

SpecNames == {NameG}
SpecUsers == {UserA, UserB}
SpecFrames == JoinFrames(SpecNames, SpecUsers) \cup PlainFrames \cup OddFrames

(***************************************************************************)
(* State machine.  Each action is one handler run to completion on the     *)
(* world of the current state; out holds what that run delivered to each   *)
(* connection, fault whether it threw.                                     *)
(***************************************************************************)
NoOut == [c \in Conns |-> <<>>]

World == [games |-> games, data |-> data, subs |-> subs, status |-> status,
          out |-> NoOut]

Commit(W) ==
  /\ games' = W.games
  /\ data' = W.data
  /\ subs' = W.subs
  /\ status' = W.status
  /\ out' = W.out

Init ==
  /\ games = <<>>
  /\ data = [c \in Conns |-> [gameName |-> Null, username |-> Null, lastPong |-> 0]]
  /\ subs = [c \in Conns |-> {}]
  /\ status = [c \in Conns |-> "new"]
  /\ now = 0
  /\ out = NoOut
  /\ fault = FALSE

\* the world open runs in: fetch has upgraded the request with the gameName
\* and username of the URL (null when absent)
Upgraded(c, g, u) ==
  [World EXCEPT !.status[c] = "open",
                !.data[c] = [gameName |-> g, username |-> u, lastPong |-> 0]]

Open(c, g, u) ==
  /\ status[c] = "new"
  /\ Commit(openHandler(Upgraded(c, g, u), c, now))
  /\ fault' = FALSE
  /\ UNCHANGED now

Message(c, frame) ==
  /\ status[c] = "open"
  /\ Commit(messageHandler(World, c, frame, now))
  /\ fault' = MessageThrows(frame)
  /\ UNCHANGED now

Pong(c) ==
  /\ status[c] = "open"
  /\ Commit(pongHandler(World, c, now))
  /\ fault' = FALSE
  /\ UNCHANGED now

\* the client closes the link, or the close of a link the server closed
\* earlier is handled
Close(c) ==
  /\ status[c] \in {"open", "closing"}
  /\ Commit(CloseLink(World, c).W)
  /\ fault' = FALSE
  /\ UNCHANGED now

\* the timer fires PING_INTERVAL after it last fired
Sweep(sync) ==
  /\ now < MaxSweeps * PING_INTERVAL
  /\ now' = now + PING_INTERVAL
  /\ Commit(sweepHandler(World, now + PING_INTERVAL, sync))
  /\ fault' = FALSE

\* connections are interchangeable: they are accepted in the order of
\* their numbers
Fresh(c) == status[c] = "new" /\ \A d \in 1..(c - 1) : status[d] # "new"

\* what the clients CN do with game names GN, usernames UN and frames FR
Clients(CN, GN, UN, FR) ==
  \/ \E c \in CN, g \in GN \cup {Null}, u \in UN \cup {Null} :
       Fresh(c) /\ Open(c, g, u)
  \/ \E c \in CN, f \in FR : Message(c, f)
  \/ \E c \in CN : Close(c)

\* the liveness monitor and the replies to its probes
Monitor ==
  \/ \E c \in Conns : Pong(c)
  \/ \E sync \in BOOLEAN : Sweep(sync)

Next ==
  \/ Clients(1..LobbyConns, SpecNames, SpecUsers, SpecFrames)
  \/ Monitor

Spec == Init /\ [][Next]_vars

(***************************************************************************)
(* A lobby that fills up: MAX_PLAYERS + 1 clients.  Client c joins the     *)
(* game NameG at open under the username FullUser(c), which only it uses.  *)
(* The last client is the one that meets the full lobby: it also asks for  *)
(* the username of client 1 and sends every kind of frame.                 *)
(***************************************************************************)
Digits == <<"1", "2", "3", "4", "5", "6", "7", "8", "9">>

FullUser(c) == <<"p", Digits[c]>>

Late == NumConns

LateNames == {NameG}

LateUsers == {FullUser(Late), FullUser(1)}

LateFrames == JoinFrames(LateNames, LateUsers) \cup PlainFrames

NextFull ==
  \/ \E c \in Conns \ {Late} : Fresh(c) /\ Open(c, NameG, FullUser(c))
  \/ \E c \in Conns \ {Late} : Close(c)
  \/ Clients({Late}, LateNames, LateUsers, LateFrames)

SpecFull == Init /\ [][NextFull]_vars

(***************************************************************************)
(* Names at the length limits.                                             *)
(***************************************************************************)
EdgeNames == {Rep("n", MAX_GAME_NAME_LENGTH), Rep("n", MAX_GAME_NAME_LENGTH + 1)}

EdgeUsers == {UserA, Rep("u", MAX_USERNAME_LENGTH + 1)}

NextEdge ==
  Clients(1..LobbyConns, EdgeNames, EdgeUsers, JoinFrames(EdgeNames, EdgeUsers))

SpecEdge == Init /\ [][NextEdge]_vars

(***************************************************************************)
(* Empty names: the game name and the username of zero characters.         *)
(***************************************************************************)
EmptyNames == {<<>>, NameG}

EmptyUsers == {<<>>, UserA}

NextEmpty ==
  Clients(1..LobbyConns, EmptyNames, EmptyUsers,
          JoinFrames(EmptyNames, EmptyUsers) \cup {EvLeave})

SpecEmpty == Init /\ [][NextEmpty]_vars

(***************************************************************************)
(* Vocabulary of the properties.                                           *)
(***************************************************************************)
\* the session named g, or a session without members when there is none
SessionOf(G, g) ==
  IF HasGame(G, g) THEN G[GameIdx(G, g)]
  ELSE [name |-> g, players |-> <<>>, hasStarted |-> FALSE]

\* connection c holds a member entry of the session s
IsMember(s, c) == \E i \in 1..Len(s.players) : s.players[i].ws = c

Deny(reason) == EvJoinDeny \o <<".">> \o reason

\* the only thing the run W did was to send msg to c
OnlyReply(W, c, msg) ==
  /\ W.out = [d \in Conns |-> IF d = c THEN <<msg>> ELSE <<>>]
  /\ W.games = games

\* the outcome of a GAMEJOIN.g,u frame from the open connection c, and of an
\* open of the new connection c with g and u in the URL
JoinByMessage(c, g, u) == messageHandler(World, c, JoinFrame(g, u), now)
JoinAtOpen(c, g, u) == openHandler(Upgraded(c, g, u), c, now)

(***************************************************************************)
(* C1.  In every reachable state every session of the registry has at most *)
(* MAX_PLAYERS (5) members.                                                *)
(***************************************************************************)
C1_AtMostMaxPlayers ==
  \A i \in 1..Len(games) : Len(games[i].players) <= 5

\* a lobby of five members has just refused a sixth
C1_Witness ==
  /\ Len(SessionOf(games, NameG).players) = 5
  /\ out[Late] = <<Deny(GAME_FULL)>>

(***************************************************************************)
(* C2.  In every reachable state the usernames of the members of one       *)
(* session are pairwise distinct, also after a further GAMEJOIN of a       *)
(* connection that is a member already.                                    *)
(***************************************************************************)
C2_DistinctUsernames ==
  \A i \in 1..Len(games) :
    \A j, k \in 1..Len(games[i].players) :
      j # k => games[i].players[j].username # games[i].players[k].username

\* a member has just asked again for the username it holds
C2_Witness ==
  /\ \E i \in 1..Len(SessionOf(games, NameG).players) :
       SessionOf(games, NameG).players[i] = [username |-> FullUser(Late), ws |-> Late]
  /\ data[Late].username = FullUser(Late)
  /\ out[Late] = <<Deny(USERNAME_TAKEN)>>

(***************************************************************************)
(* C3.  No session of the registry has an empty member list: the handler   *)
(* that removes the last member (GAMELEAVE, close, liveness timeout) also  *)
(* deletes the session.                                                    *)
(***************************************************************************)
C3_NoEmptySession ==
  \A i \in 1..Len(games) : Len(games[i].players) > 0

(***************************************************************************)
(* C4.  A join request, by GAMEJOIN or at open, is checked in the order    *)
(* game name, username, username taken, game full.  The first check that   *)
(* fails decides the reply: one GAMEJOIN_DENY with its reason, sent to the *)
(* requester alone, and nobody is added to any session.  The names of the  *)
(* requests are not empty.                                                 *)
(***************************************************************************)
C4_Names == {NameG, Rep("n", 33), Null}
C4_Users == {FullUser(Late), FullUser(1), Rep("u", 27), Null}

\* the reason of the first failing check, <<>> when none fails
C4_Reason(g, u) ==
  LET s == SessionOf(games, g) IN
  IF g = Null \/ Len(g) > 32 THEN GAME_NAME_INVALID
  ELSE IF u = Null \/ Len(u) > 26 THEN USERNAME_INVALID
  ELSE IF \E i \in 1..Len(s.players) : s.players[i].username = u THEN USERNAME_TAKEN
  ELSE IF Len(s.players) >= 5 THEN GAME_FULL
  ELSE <<>>

C4_FirstFailureDecides ==
  \A c \in Conns, g \in C4_Names, u \in C4_Users :
    C4_Reason(g, u) # <<>> =>
      /\ status[c] = "open" /\ g # Null /\ u # Null =>
           OnlyReply(JoinByMessage(c, g, u), c, Deny(C4_Reason(g, u)))
      /\ Fresh(c) =>
           OnlyReply(JoinAtOpen(c, g, u), c, Deny(C4_Reason(g, u)))

\* a taken username on a full lobby was answered USERNAME_TAKEN
C4_Witness ==
  /\ Len(SessionOf(games, NameG).players) = 5
  /\ data[Late].username = FullUser(1)
  /\ isPlayerInGame(SessionOf(games, NameG).players, FullUser(1))
  /\ ~IsMember(SessionOf(games, NameG), Late)
  /\ out[Late] = <<Deny(USERNAME_TAKEN)>>

(***************************************************************************)
(* C5.  A join whose game name has 33 characters is denied with            *)
(* GAME_NAME_INVALID in every registry state and for every username.  A    *)
(* join whose game name has 32 characters is accepted when the username is *)
(* valid (1 to 26 characters), is not used in the target session and that  *)
(* session has fewer than 5 members.                                       *)
(***************************************************************************)
C5_Name32 == Rep("n", 32)
C5_Name33 == Rep("n", 33)
C5_Users == {UserA, UserB, Rep("u", 26), Rep("u", 27), <<>>}

\* the run W added [u, c] at the end of the session g and told c
C5_Accepted(W, c, g, u) ==
  /\ SessionOf(W.games, g).players =
       Append(SessionOf(games, g).players, [username |-> u, ws |-> c])
  /\ Len(W.out[c]) = 1
  /\ SubSeq(W.out[c][1], 1, Len(EvJoinAccept) + 1) = EvJoinAccept \o <<".">>

C5_Should32(u) ==
  LET s == SessionOf(games, C5_Name32) IN
  /\ Len(u) >= 1 /\ Len(u) <= 26
  /\ \A i \in 1..Len(s.players) : s.players[i].username # u
  /\ Len(s.players) < 5

C5_NameLengthLimit ==
  \A c \in Conns, u \in C5_Users :
    /\ status[c] = "open" =>
         /\ OnlyReply(JoinByMessage(c, C5_Name33, u), c, Deny(GAME_NAME_INVALID))
         /\ C5_Should32(u) =>
              C5_Accepted(JoinByMessage(c, C5_Name32, u), c, C5_Name32, u)
    /\ Fresh(c) =>
         /\ OnlyReply(JoinAtOpen(c, C5_Name33, u), c, Deny(GAME_NAME_INVALID))
         /\ C5_Should32(u) =>
              C5_Accepted(JoinAtOpen(c, C5_Name32, u), c, C5_Name32, u)

\* a session of the 32 character name exists, and a join to the 33
\* character name has just been denied
C5_Witness ==
  /\ \E c \in Conns : IsMember(SessionOf(games, C5_Name32), c)
  /\ \E c \in Conns :
       /\ data[c].gameName = C5_Name33
       /\ out[c] = <<Deny(GAME_NAME_INVALID)>>

(***************************************************************************)
(* C6.  A join with an empty game name is denied with GAME_NAME_INVALID,   *)
(* and a join with a valid game name and an empty username is denied with  *)
(* USERNAME_INVALID, by GAMEJOIN and at open alike; neither creates a      *)
(* session nor adds a member: no session is keyed by the empty string and  *)
(* no member has the empty username.                                       *)
(***************************************************************************)
C6_EmptyNamesDenied ==
  /\ ~HasGame(games, <<>>)
  /\ \A i \in 1..Len(games) : ~isPlayerInGame(games[i].players, <<>>)
  /\ \A c \in Conns, u \in EmptyUsers :
       /\ status[c] = "open" =>
            /\ OnlyReply(JoinByMessage(c, <<>>, u), c, Deny(GAME_NAME_INVALID))
            /\ OnlyReply(JoinByMessage(c, NameG, <<>>), c, Deny(USERNAME_INVALID))
       /\ Fresh(c) =>
            /\ OnlyReply(JoinAtOpen(c, <<>>, u), c, Deny(GAME_NAME_INVALID))
            /\ OnlyReply(JoinAtOpen(c, NameG, <<>>), c, Deny(USERNAME_INVALID))

(***************************************************************************)
(* C7.  A successful join creates the session with the joiner as its only  *)
(* member when the name was absent, and otherwise appends the joiner at    *)
(* the end of the member list; then every member of the session, the       *)
(* joiner included, is delivered one GAMEJOIN_ACCEPT with the usernames of *)
(* all members in join order.                                              *)
(***************************************************************************)
\* the run W added a member to the session g
C7_Joined(W, g) ==
  SessionOf(W.games, g).players # SessionOf(games, g).players

C7_Roster(s) == EvJoinAccept \o <<".">> \o Join(Usernames(s.players))

C7_Outcome(W, c, g, u) ==
  LET new == SessionOf(W.games, g) IN
  /\ new = [SessionOf(games, g) EXCEPT
              !.players = Append(@, [username |-> u, ws |-> c])]
  /\ \A d \in Conns : IsMember(new, d) => W.out[d] = <<C7_Roster(new)>>

C7_JoinBroadcast ==
  \A c \in Conns, g \in SpecNames, u \in SpecUsers :
    /\ status[c] = "open" /\ C7_Joined(JoinByMessage(c, g, u), g) =>
         C7_Outcome(JoinByMessage(c, g, u), c, g, u)
    /\ Fresh(c) /\ C7_Joined(JoinAtOpen(c, g, u), g) =>
         C7_Outcome(JoinAtOpen(c, g, u), c, g, u)

(***************************************************************************)
(* C8.  A GAMEACTION of a member of a session that has not started sets    *)
(* hasStarted exactly when the sender is the first member (the owner) and  *)
(* the session has at least 2 members; in every other case the sender      *)
(* alone receives GAMEACTION_DENY.GAME_NOT_STARTED, nothing is published   *)
(* and hasStarted stays false.  A GAMEACTION on a started session leaves   *)
(* hasStarted true.                                                        *)
(***************************************************************************)
C8_Action == ActionFrame(PayloadFoo)

C8_Denied == EvGameActionDeny \o <<".">> \o GAME_NOT_STARTED

C8_OwnerStartsGame ==
  \A c \in Conns, i \in 1..Len(games) :
    status[c] = "open" /\ IsMember(games[i], c) =>
      LET W == messageHandler(World, c, C8_Action, now)
          after == SessionOf(W.games, games[i].name)
          may == games[i].players[1].ws = c /\ Len(games[i].players) >= 2
      IN IF games[i].hasStarted THEN after.hasStarted
         ELSE /\ after.hasStarted <=> may
              /\ ~may => OnlyReply(W, c, C8_Denied)

(***************************************************************************)
(* C9.  When a member of a started session leaves, by GAMELEAVE, by the    *)
(* close of its link or by the liveness timeout, the session is removed in *)
(* the same step and every remaining member receives GAMEEND, with the     *)
(* reason PLAYER_LEFT for a leave or a close and PLAYER_TIMEOUT for a      *)
(* timeout.                                                                *)
(***************************************************************************)
\* the run W removed the session s and told GAMEEND to its members outside
\* of the set gone
C9_Ended(W, s, gone, reason) ==
  /\ ~HasGame(W.games, s.name)
  /\ \A d \in Conns \ gone :
       IsMember(s, d) =>
         \E k \in 1..Len(W.out[d]) : W.out[d][k] = EvGameEnd \o <<".">> \o reason

\* the members of s that the sweep at time t finds timed out
C9_Late(s, t) ==
  {c \in Conns : IsMember(s, c) /\ t - data[c].lastPong > 2 * PING_INTERVAL}

C9_LeaveEndsStartedGame ==
  \A i \in 1..Len(games) :
    games[i].hasStarted =>
      /\ \A c \in Conns :
           status[c] = "open" /\ IsMember(games[i], c) =>
             /\ C9_Ended(messageHandler(World, c, EvLeave, now),
                         games[i], {c}, PLAYER_LEFT)
             /\ C9_Ended(CloseLink(World, c).W, games[i], {c}, PLAYER_LEFT)
      /\ \A sync \in BOOLEAN :
           C9_Late(games[i], now) # {} =>
             C9_Ended(sweepHandler(World, now, sync), games[i],
                      C9_Late(games[i], now), PLAYER_TIMEOUT)

(***************************************************************************)
(* C10.  A GAMEACTION that is accepted (the session has started, or is     *)
(* started by this very message) is delivered to every member of the       *)
(* session, the sender included: when the owner of a session of two        *)
(* members sends GAMEACTION.foo, both members receive GAMEACTION.foo.      *)
(***************************************************************************)
C10_Relayed == EvGameAction \o <<".">> \o PayloadFoo

C10_ActionReachesAllMembers ==
  \A c \in Conns, i \in 1..Len(games) :
    status[c] = "open" /\ IsMember(games[i], c) =>
      LET W == messageHandler(World, c, ActionFrame(PayloadFoo), now) IN
      SessionOf(W.games, games[i].name).hasStarted =>
        \A d \in Conns : IsMember(games[i], d) => W.out[d] = <<C10_Relayed>>

(***************************************************************************)
(* C11.  Round trip: once every member of a session has left, a successful *)
(* join under the same name is a join to a fresh session: the session has  *)
(* hasStarted = FALSE, its only member is the joiner, and no other         *)
(* connection receives its broadcast or is treated as one of its members.  *)
(***************************************************************************)
\* the handlers take the open connection d for a member of the session s
C11_TreatedAsMember(W, s, d) ==
  /\ W.status[d] = "open"
  /\ W.data[d].gameName = s.name
  /\ isPlayerInGame(s.players, W.data[d].username)

C11_Fresh(W, c, g, u) ==
  /\ SessionOf(W.games, g) =
       [name |-> g, players |-> <<[username |-> u, ws |-> c]>>,
        hasStarted |-> FALSE]
  /\ \A d \in Conns \ {c} :
       /\ W.out[d] = <<>>
       /\ ~C11_TreatedAsMember(W, SessionOf(W.games, g), d)

C11_JoinAfterAllLeft ==
  \A g \in SpecNames :
    SessionOf(games, g).players = <<>> =>
      \A c \in Conns, u \in SpecUsers :
        /\ status[c] = "open" /\ HasGame(JoinByMessage(c, g, u).games, g)
             /\ SessionOf(JoinByMessage(c, g, u).games, g).players # <<>> =>
               C11_Fresh(JoinByMessage(c, g, u), c, g, u)
        /\ Fresh(c) /\ HasGame(JoinAtOpen(c, g, u).games, g)
             /\ SessionOf(JoinAtOpen(c, g, u).games, g).players # <<>> =>
               C11_Fresh(JoinAtOpen(c, g, u), c, g, u)

(***************************************************************************)
(* C12.  The payload of an accepted GAMEACTION is relayed verbatim: for    *)
(* every payload p, also one that contains the separator '.', every frame  *)
(* published to the session is exactly GAMEACTION.p (the only other frame  *)
(* a GAMEACTION can produce is the denial sent to the sender).             *)
(***************************************************************************)
C12_Payloads == {PayloadFoo, <<>>, <<"f", ".", "o">>, <<"f", ",", "o">>}

C12_PayloadVerbatim ==
  \A c \in Conns, p \in C12_Payloads :
    status[c] = "open" =>
      LET W == messageHandler(World, c, ActionFrame(p), now) IN
      \A d \in Conns : \A k \in 1..Len(W.out[d]) :
        \/ W.out[d][k] = EvGameAction \o <<".">> \o p
        \/ d = c /\ W.out[d][k] = EvGameActionDeny \o <<".">> \o GAME_NOT_STARTED

(***************************************************************************)
(* C13.  The two join entry points validate identically: in every registry *)
(* state and for every pair of game name and username, a new connection    *)
(* that presents the pair at open and a new connection that sends it in a  *)
(* GAMEJOIN frame get the same reply and leave the same registry.          *)
(***************************************************************************)
C13_Names == {NameG, <<>>, Rep("n", MAX_GAME_NAME_LENGTH + 1), <<"g", ".", "h">>}
C13_Users == {UserA, UserB, <<>>, Rep("u", MAX_USERNAME_LENGTH + 1)}

\* the new connection c is opened without parameters, then sends GAMEJOIN.g,u
C13_ByMessage(c, g, u) ==
  LET opened == openHandler(Upgraded(c, Null, Null), c, now) IN
  messageHandler([opened EXCEPT !.out = NoOut], c, JoinFrame(g, u), now)

C13_SameValidation ==
  \A c \in Conns, g \in C13_Names, u \in C13_Users :
    Fresh(c) =>
      /\ C13_ByMessage(c, g, u).out = JoinAtOpen(c, g, u).out
      /\ C13_ByMessage(c, g, u).games = JoinAtOpen(c, g, u).games

(***************************************************************************)
(* C14.  A frame without an event token, with an unknown event, or with a  *)
(* known event and a malformed payload (GAMEJOIN without a payload,        *)
(* GAMEJOIN without a username field) is silently dropped: the handler     *)
(* completes without a fault, nothing is sent to anyone, and the registry  *)
(* and the name and username recorded for the connection are unchanged.    *)
(***************************************************************************)
C14_Frames ==
  {<<>>, <<"F", "O", "O", ".", "x">>, EvJoin, EvJoin \o <<".">> \o NameG}

C14_Dropped(c, frame) ==
  LET W == messageHandler(World, c, frame, now) IN
  /\ ~MessageThrows(frame)
  /\ W.out = NoOut
  /\ W.games = games
  /\ W.data[c].gameName = data[c].gameName
  /\ W.data[c].username = data[c].username

C14_MalformedFramesDropped ==
  \A c \in Conns, frame \in C14_Frames :
    status[c] = "open" => C14_Dropped(c, frame)

(***************************************************************************)
(* C15.  At a liveness sweep with period T a member connection is evicted  *)
(* (its member entries are removed and its link is closed) if and only if  *)
(* now - lastPong > 2T; every other member connection is sent a probe and  *)
(* stays a member of its session as long as that session is not torn      *)
(* down.  A connection whose last pong is at most 2T old is never evicted. *)
(***************************************************************************)
\* the sweep at time t finds the last pong of c more than 2T old
C15_Overdue(c, t) == t - data[c].lastPong > 2 * PING_INTERVAL

C15_SweepOutcome(W, s, c, t) ==
  LET after == SessionOf(W.games, s.name) IN
  IF C15_Overdue(c, t)
  THEN /\ ~IsMember(after, c)
       /\ W.status[c] # "open"
  ELSE /\ \E k \in 1..Len(W.out[c]) : W.out[c][k] = PingFrame
       /\ W.status[c] = status[c]
       /\ HasGame(W.games, s.name) => IsMember(after, c)

C15_EvictedIffOverdue ==
  \A sync \in BOOLEAN, i \in 1..Len(games), c \in Conns :
    IsMember(games[i], c) =>
      C15_SweepOutcome(sweepHandler(World, now + PING_INTERVAL, sync),
                       games[i], c, now + PING_INTERVAL)

(***************************************************************************)
(* Connections that go silent.  The clients join and leave before the      *)
(* first sweep and then do nothing more: they answer no probe, send no     *)
(* frame and do not close.  The timer keeps firing: setInterval never      *)
(* stops, and the transport delivers the close event of a link the server  *)
(* closed.  Once the clock of the model has reached its bound every last   *)
(* pong is more than 2T old, as it is at every later time, so the later    *)
(* sweeps run at the bound.                                                *)
(***************************************************************************)
SweepLate(sync) ==
  /\ now >= MaxSweeps * PING_INTERVAL
  /\ Commit(sweepHandler(World, now, sync))
  /\ fault' = FALSE
  /\ UNCHANGED now

Timer == \E sync \in BOOLEAN : Sweep(sync) \/ SweepLate(sync)

ServerClosed == \E c \in Conns : status[c] = "closing" /\ Close(c)

LiveFrames == JoinFrames(SpecNames, SpecUsers) \cup {EvLeave}

NextLive ==
  \/ now = 0 /\ Clients(1..LobbyConns, SpecNames, SpecUsers, LiveFrames)
  \/ Timer
  \/ ServerClosed

SpecLive ==
  Init /\ [][NextLive]_vars /\ WF_vars(Timer) /\ WF_vars(ServerClosed)

(***************************************************************************)
(* C16.  Liveness: with the sweep scheduled fairly, every member entry of  *)
(* a connection that has stopped answering probes is eventually removed    *)
(* from its session, whatever joins the connection performed before (also  *)
(* more than one GAMEJOIN): eventually no session has a member left.       *)
(***************************************************************************)
C16_SilentEntriesRemoved ==
  <>[](\A i \in 1..Len(games) : games[i].players = <<>>)

(***************************************************************************)
(* C17.  A denied join changes nothing but the denial message: the         *)
(* registry is unchanged and the game name and username recorded for the   *)
(* requesting connection keep the values they had before the request, so   *)
(* that a member whose further GAMEJOIN is denied is still removed from    *)
(* its session by its later GAMELEAVE or close.                            *)
(***************************************************************************)
C17_Names == {NameG, NameH, Rep("n", MAX_GAME_NAME_LENGTH + 1)}
C17_Users == {UserA, UserB, Rep("u", MAX_USERNAME_LENGTH + 1)}

C17_IsDenial(W, c) ==
  /\ Len(W.out[c]) = 1
  /\ SubSeq(W.out[c][1], 1, Len(EvJoinDeny) + 1) = EvJoinDeny \o <<".">>

\* after the run W, the GAMELEAVE and the close of c remove its entries
C17_StillLeaves(W, c) ==
  \A i \in 1..Len(W.games) :
    IsMember(W.games[i], c) =>
      LET noOut == [W EXCEPT !.out = NoOut] IN
      /\ ~IsMember(SessionOf(messageHandler(noOut, c, EvLeave, now).games,
                             W.games[i].name), c)
      /\ ~IsMember(SessionOf(CloseLink(noOut, c).W.games, W.games[i].name), c)

C17_DeniedJoinChangesNothing ==
  \A c \in Conns, g \in C17_Names, u \in C17_Users :
    status[c] = "open" /\ C17_IsDenial(JoinByMessage(c, g, u), c) =>
      /\ JoinByMessage(c, g, u).games = games
      /\ JoinByMessage(c, g, u).data[c].gameName = data[c].gameName
      /\ JoinByMessage(c, g, u).data[c].username = data[c].username
      /\ C17_StillLeaves(World, c) => C17_StillLeaves(JoinByMessage(c, g, u), c)

(***************************************************************************)
(* C18.  Each connection appears in at most one member entry of the whole  *)
(* registry, and for every member entry (u, c) of the session named n the  *)
(* game name recorded for c is n and the username recorded for c is u.     *)
(***************************************************************************)
C18_OneEntryPerConnection ==
  \A i \in 1..Len(games) : \A j \in 1..Len(games[i].players) :
    LET entry == games[i].players[j] IN
    /\ data[entry.ws].gameName = games[i].name
    /\ data[entry.ws].username = entry.username
    /\ \A k \in 1..Len(games) : \A l \in 1..Len(games[k].players) :
         games[k].players[l].ws = entry.ws => k = i /\ l = j

(***************************************************************************)
(* C19.  An event of connection c (its GAMELEAVE, its close, its timeout)  *)
(* removes only member entries of c, and a GAMEACTION or GAMEMSG of c is   *)
(* honoured only if c itself is a member: a connection that holds no entry *)
(* of a session can neither remove an entry of it, nor start or end it,    *)
(* nor relay into it, nor get a reply as if it were a member.              *)
(***************************************************************************)
\* the run W left the registry as it was and delivered nothing
C19_NoEffect(W) == W.games = games /\ W.out = NoOut

\* the members of s whose last pong the sweep at time t finds overdue
C19_Overdue(s, t) ==
  {c \in Conns : IsMember(s, c) /\ t - data[c].lastPong > 2 * PING_INTERVAL}

\* the entries of the session s that are not entries of c
C19_OthersOf(s, c) ==
  LET Other(e) == e.ws # c IN SelectSeq(s.players, Other)

\* the run W removed no entry of another connection from the lobby s
C19_OthersKept(W, s, c) ==
  C19_OthersOf(SessionOf(W.games, s.name), c) = C19_OthersOf(s, c)

C19_OnlyOwnEntries ==
  /\ \A c \in Conns, i \in 1..Len(games) :
       status[c] = "open" /\ ~games[i].hasStarted =>
         /\ C19_OthersKept(messageHandler(World, c, EvLeave, now), games[i], c)
         /\ C19_OthersKept(CloseLink(World, c).W, games[i], c)
  /\ \A c \in Conns :
       status[c] = "open" /\ (\A i \in 1..Len(games) : ~IsMember(games[i], c)) =>
         /\ \A frame \in PlainFrames : C19_NoEffect(messageHandler(World, c, frame, now))
         /\ CloseLink(World, c).W.games = games
         /\ CloseLink(World, c).W.out = NoOut
  /\ \A sync \in BOOLEAN, i \in 1..Len(games) :
       C19_Overdue(games[i], now + PING_INTERVAL) = {} =>
         SessionOf(sweepHandler(World, now + PING_INTERVAL, sync).games,
                   games[i].name) = games[i]

(***************************************************************************)
(* C20.  Topic subscription tracks membership: after every completed event *)
(* a connection is subscribed to the topic of the session name n if and    *)
(* only if it is a member of the session named n; hence a connection that  *)
(* has left, or that remained when a started session was torn down,        *)
(* receives nothing that is published under that name later.               *)
(***************************************************************************)
C20_Topics ==
  {games[i].name : i \in 1..Len(games)} \cup UNION {subs[c] : c \in Conns}

C20_SubscribedIffMember ==
  \A c \in Conns, n \in C20_Topics :
    n \in subs[c] <=> IsMember(SessionOf(games, n), c)

====
